---- MODULE Spec2Model ----
(***************************************************************************)
(* The slice / checkerboard coding schedule of TestModel                   *)
(* (compressai/models/sensetime_chandelier.py): construction, compress,    *)
(* decompress and forward, one action per step of each call.               *)
(*                                                                         *)
(* Tensors are (C, H, W) grids (batch size 1) held as a row-major flat     *)
(* sequence.  Real values are fixed-point integers counting halves, so     *)
(* that rounding (ties to even, as torch.round) is not the identity.       *)
(***************************************************************************)
EXTENDS Integers, Sequences, FiniteSets, TLC

VARIABLES model, inp, active, enc, dec, fwd, rets, calls

vars == <<model, inp, active, enc, dec, fwd, rets, calls>>

(***************************************************************************)
(* Bounds of the model.                                                    *)
(***************************************************************************)
\* number of distinct input latent grids per shape
NumSeeds == 2
\* number of compress calls in one session
MaxCompress == 2

(***************************************************************************)
(* Tensors.                                                                *)
(***************************************************************************)
\* s[1] + .. + s[n]
RECURSIVE SumFirst(_, _)
SumFirst(s, n) == IF n = 0 THEN 0 ELSE s[n] + SumFirst(s, n - 1)

SumSeq(s) == SumFirst(s, Len(s))

\* sum of F(0) .. F(n-1)
SumTo(n, F(_)) == SumSeq([j \in 1..n |-> F(j - 1)])

MkT(C, H, W, F(_, _, _)) ==
    [C |-> C, H |-> H, W |-> W,
     v |-> [n \in 1..(C * H * W) |->
              F((n - 1) \div (H * W), ((n - 1) \div W) % H, (n - 1) % W)]]

\* element (c, r, w) of t; zero outside the grid (the padding of a convolution)
At(t, c, r, w) ==
    IF c >= 0 /\ c < t.C /\ r >= 0 /\ r < t.H /\ w >= 0 /\ w < t.W
    THEN t.v[c * t.H * t.W + r * t.W + w + 1]
    ELSE 0

Zeros(C, H, W) == MkT(C, H, W, LAMBDA c, r, w : 0)

NoT == Zeros(0, 0, 0)

SameHW(a, b) == a.H = b.H /\ a.W = b.W

\* torch.concat([a, b], dim=1)
Cat(a, b) ==
    MkT(a.C + b.C, a.H, a.W,
        LAMBDA c, r, w : IF c < a.C THEN At(a, c, r, w) ELSE At(b, c - a.C, r, w))

\* channels start .. start+len-1 of t
Narrow(t, start, len) ==
    MkT(len, t.H, t.W, LAMBDA c, r, w : At(t, start + c, r, w))

\* element-wise a + b
AddT(a, b) ==
    MkT(a.C, a.H, a.W, LAMBDA c, r, w : At(a, c, r, w) + At(b, c, r, w))

\* torch.split(t, sizes, 1): sizes must sum to t.C
SplitOK(t, sizes) == SumSeq(sizes) = t.C

SplitT(t, sizes) ==
    [i \in 1..Len(sizes) |-> Narrow(t, SumSeq(SubSeq(sizes, 1, i - 1)), sizes[i])]

\* t.chunk(2, 1): chunks of ceil(C / 2) channels
ChunkLo(t) == Narrow(t, 0, (t.C + 1) \div 2)

ChunkHi(t) == Narrow(t, (t.C + 1) \div 2, t.C - ((t.C + 1) \div 2))

\* bounded value of a stand-in function, in halves
Wrap(x) == (x % 7) - 3

\* torch.round on a value counted in halves: ties go to the even integer
RoundHE(d) ==
    IF d % 2 = 0 THEN d
    ELSE LET n == (d - 1) \div 2
         IN IF n % 2 = 0 THEN 2 * n ELSE 2 * (n + 1)

(***************************************************************************)
(* Model configuration: TestModel.__init__.                                *)
(***************************************************************************)
\* groups[i] with the source's 0-based index
G(groups, i) == groups[i + 1]

\* number of slices k of a GroupTable [0, g1, .., gk]
NumGroups(groups) == Len(groups) - 1

\* self.groups[1:]
Widths(groups) == SubSeq(groups, 2, Len(groups))

\* [2 * i for i in self.groups[1:]]
Widths2(groups) == [i \in 1..NumGroups(groups) |-> 2 * G(groups, i)]

\* the GroupTable invariant of the data model
GroupsValid(c) ==
    /\ Len(c.groups) >= 1
    /\ G(c.groups, 0) = 0
    /\ \A i \in 1..NumGroups(c.groups) : G(c.groups, i) > 0
    /\ SumSeq(Widths(c.groups)) = c.M
    /\ NumGroups(c.groups) = c.num_slices

\* declared channels of cc_transforms[i - 1], i in 1..num_slices-1
CcIn(groups, i) ==
    G(groups, IF i > 0 THEN (IF i < 1 THEN i ELSE 1) ELSE 0)
    + G(groups, IF i > 1 THEN i ELSE 0)

CcOut(groups, i) == G(groups, i + 1) * 2

\* declared channels of context_prediction[i], i in 0..num_slices-1
CpIn(groups, i) == G(groups, i + 1)

CpOut(groups, i) == 2 * G(groups, i + 1)

\* ParamAggregation[i] declared with the width of the slice before
PaInPrecedingWidth(M, groups, i) ==
    M * 2 + G(groups, IF i > 0 THEN i ELSE 0) * 2 + G(groups, i + 1) * 2

\* declared channels of ParamAggregation[i], i in 0..num_slices-1
PaIn(M, groups, i) ==
    M * 2 + G(groups, IF i > 0 THEN i + 1 ELSE 0) * 2 + G(groups, i + 1) * 2

PaOut(groups, i) == G(groups, i + 1) * 2

\* the 0/1 mask of CheckboardMaskedConv2d over a 5x5 kernel
Mask(kr, kc) ==
    IF (kr % 2 = 0 /\ kc % 2 = 1) \/ (kr % 2 = 1 /\ kc % 2 = 0) THEN 1 ELSE 0

\* the weights a freshly built context_prediction[i] holds
InitWeight(cin, cout) ==
    [n \in 1..(cout * cin * 25) |-> 1 + ((((n - 1) \div 5) + 2 * ((n - 1) % 5)) % 2)]

\* __init__ indexes groups[i + 1] for every i < num_slices
CtorOK(c) == c.num_slices <= NumGroups(c.groups)

Built(c) ==
    [status |-> "ready", M |-> c.M, N |-> c.N, num_slices |-> c.num_slices,
     groups |-> c.groups,
     cc |-> [i \in 1..(c.num_slices - 1) |->
               [cin |-> CcIn(c.groups, i), cout |-> CcOut(c.groups, i)]],
     cp |-> [j \in 1..c.num_slices |->
               [cin |-> CpIn(c.groups, j - 1), cout |-> CpOut(c.groups, j - 1),
                weight |-> InitWeight(CpIn(c.groups, j - 1), CpOut(c.groups, j - 1))]],
     pa |-> [j \in 1..c.num_slices |->
               [cin |-> PaIn(c.M, c.groups, j - 1), cout |-> PaOut(c.groups, j - 1)]]]

Unbuilt(c, st) ==
    [status |-> st, M |-> c.M, N |-> c.N, num_slices |-> c.num_slices,
     groups |-> c.groups, cc |-> <<>>, cp |-> <<>>, pa |-> <<>>]

(***************************************************************************)
(* Deterministic stand-ins for the learned functions and the two entropy   *)
(* coders.                                                                 *)
(***************************************************************************)
\* ParamAggregation[i]: a stack of 1x1 convolutions, so position-wise
ParamAggregationF(m, i, x) ==
    MkT(m.pa[i + 1].cout, x.H, x.W,
        LAMBDA o, r, w :
            Wrap(i + o + SumTo(x.C, LAMBDA c : (c + 1) * At(x, c, r, w))))

\* cc_transforms[j]: a stack of padded convolutions
CcTransformF(m, j, x) ==
    MkT(m.cc[j + 1].cout, x.H, x.W,
        LAMBDA o, r, w :
            Wrap(j + o
                 + SumTo(x.C, LAMBDA c :
                       (c + 1) * At(x, c, r, w) + At(x, c, r - 1, w)
                       + 2 * At(x, c, r, w + 1))))

\* h_a: three convolutions, two of stride 2
HA(y, N) ==
    MkT(N, (y.H + 3) \div 4, (y.W + 3) \div 4,
        LAMBDA n, r, w :
            n + SumTo(y.C, LAMBDA c :
                    (c + 1) * At(y, c, 4 * r, 4 * w) + At(y, c, 4 * r + 1, 4 * w + 1)
                    + At(y, c, 4 * r + 3, 4 * w + 2)))

\* h_s: two transposed convolutions of stride 2, then 2M output channels
HS(z_hat, M) ==
    MkT(2 * M, 4 * z_hat.H, 4 * z_hat.W,
        LAMBDA o, r, w :
            Wrap(o + r + 2 * w + At(z_hat, o % z_hat.C, r \div 4, w \div 4)))

\* entropy_bottleneck._get_medians(): one half
Median == 1

\* entropy_bottleneck.compress: the rounded residuals, in order
EBCompress(z) == [n \in 1..Len(z.v) |-> RoundHE(z.v[n] - Median) \div 2]

\* entropy_bottleneck.decompress(strings, shape)
EBDecompress(s, shape, N) ==
    [C |-> N, H |-> shape[1], W |-> shape[2],
     v |-> [n \in 1..(N * shape[1] * shape[2]) |->
              2 * (IF n <= Len(s) THEN s[n] ELSE 0) + Median]]

\* gaussian_conditional.build_indexes: a monotone step function of the scale
BuildIndexes(scales) ==
    [scales EXCEPT !.v = [n \in 1..Len(scales.v) |->
        IF scales.v[n] < 0 THEN 0 ELSE IF scales.v[n] > 3 THEN 3 ELSE scales.v[n]]]

\* gaussian_conditional.compress: the rounded residual of every position, coded
\* under the distribution its index selects
GCCompress(values, indexes, means) ==
    [n \in 1..Len(values.v) |->
        (RoundHE(values.v[n] - means.v[n]) \div 2) + indexes.v[n]]

\* gaussian_conditional.decompress: residuals decoded under indexes, plus means
GCDecompress(strings, indexes, means) ==
    [indexes EXCEPT !.v = [n \in 1..Len(indexes.v) |->
        2 * ((IF n <= Len(strings) THEN strings[n] ELSE 0) - indexes.v[n])
        + means.v[n]]]

(***************************************************************************)
(* CheckboardMaskedConv2d.forward.                                         *)
(***************************************************************************)
\* self.weight.data *= self.mask
MaskWeight(weight) ==
    [n \in 1..Len(weight) |-> weight[n] * Mask(((n - 1) \div 5) % 5, (n - 1) % 5)]

\* the bias nn.Conv2d holds for output channel o (bias=True by default)
ConvBias(o) == 1 + (o % 2)

\* nn.Conv2d.forward with kernel 5, padding 2, stride 1 under `weight`
Conv5(weight, cin, cout, x) ==
    MkT(cout, x.H, x.W,
        LAMBDA o, r, w :
            ConvBias(o) + SumTo(cin * 25, LAMBDA q :
                weight[o * cin * 25 + q + 1]
                * At(x, q \div 25, r + ((q \div 5) % 5) - 2, w + (q % 5) - 2)))

\* the in-place product with a mask that holds 2 where it should hold 1
MaskedConvWeightTwos(weight) == [n \in 1..Len(weight) |-> 2 * MaskWeight(weight)[n]]

\* the weights the layer holds once forward has run self.weight.data *= self.mask
MaskedConvWeight(weight) == MaskWeight(weight)

\* the value forward returns: the convolution under the weights just masked
MaskedConvOut(weight, cin, cout, x) == Conv5(MaskedConvWeight(weight), cin, cout, x)

(***************************************************************************)
(* Checkerboard split, pack and unpack.                                    *)
(***************************************************************************)
\* the positions [0::2, 0::2] and [1::2, 1::2]
IsAnchor(r, w) == (r % 2 = 0 /\ w % 2 = 0) \/ (r % 2 = 1 /\ w % 2 = 1)

\* the positions [0::2, 1::2] and [1::2, 0::2]
IsNonAnchor(r, w) == (r % 2 = 0 /\ w % 2 = 1) \/ (r % 2 = 1 /\ w % 2 = 0)

\* _unembed(y)[0]
UnembedAnchor(y) ==
    MkT(y.C, y.H, y.W, LAMBDA c, r, w : IF IsAnchor(r, w) THEN At(y, c, r, w) ELSE 0)

\* _unembed with the second non-anchor assignment on the columns [1::2]
UnembedNonAnchorSameCols(y) ==
    MkT(y.C, y.H, y.W, LAMBDA c, r, w : IF w % 2 = 1 THEN At(y, c, r, w) ELSE 0)

\* _unembed(y)[1]
UnembedNonAnchor(y) ==
    MkT(y.C, y.H, y.W, LAMBDA c, r, w : IF IsNonAnchor(r, w) THEN At(y, c, r, w) ELSE 0)

\* the column of row r that column j of the half-width grid holds
PackCol(step, r, j) ==
    IF step = "anchor"
    THEN (IF r % 2 = 0 THEN 2 * j ELSE 2 * j + 1)
    ELSE (IF r % 2 = 0 THEN 2 * j + 1 ELSE 2 * j)

\* both row parities packed from the columns [a::2] of the even rows
PackTSameCols(t, step) ==
    MkT(t.C, t.H, t.W \div 2, LAMBDA c, r, j : At(t, c, r, PackCol(step, 0, j)))

\* x_encode[:, :, 0::2, :] = x[:, :, 0::2, a::2]; x_encode[:, :, 1::2, :] = x[:, :, 1::2, b::2]
PackT(t, step) ==
    MkT(t.C, t.H, t.W \div 2, LAMBDA c, r, j : At(t, c, r, PackCol(step, r, j)))

\* the strided source has as many columns as the half-width target
PackOK(t) == t.W % 2 = 0

\* y_decode = zeros(decode_shape); y_decode[:, :, 0::2, a::2] = quantized[:, :, 0::2, :]; ..
UnpackT(q, step, W) ==
    MkT(q.C, q.H, W,
        LAMBDA c, r, w :
            IF (step = "anchor" /\ IsAnchor(r, w)) \/ (step = "non_anchor" /\ IsNonAnchor(r, w))
            THEN At(q, c, r, w \div 2)
            ELSE 0)

(***************************************************************************)
(* _calculate_support.                                                     *)
(***************************************************************************)
\* _calculate_support reading the slice before the preceding one
SupportInputOffByOne(slice_index, y_hat_slices) ==
    IF slice_index = 1
    THEN y_hat_slices[1]
    ELSE Cat(y_hat_slices[1], y_hat_slices[slice_index - 1])

\* the tensor handed to cc_transforms[slice_index - 1]
SupportInput(slice_index, y_hat_slices) ==
    IF slice_index = 1
    THEN y_hat_slices[1]
    ELSE Cat(y_hat_slices[1], y_hat_slices[slice_index])

\* no index, channel or shape error is raised
CalculateSupportOK(m, slice_index, y_hat_slices, latent_means, latent_scales) ==
    \/ slice_index = 0
    \/ /\ slice_index - 1 < Len(m.cc)
       /\ SupportInput(slice_index, y_hat_slices).C = m.cc[slice_index].cin
       /\ SameHW(y_hat_slices[1], latent_means)

CalculateSupport(m, slice_index, y_hat_slices, latent_means, latent_scales) ==
    IF slice_index = 0
    THEN Cat(latent_means, latent_scales)
    ELSE LET support_slices_ch ==
                 CcTransformF(m, slice_index - 1, SupportInput(slice_index, y_hat_slices))
         IN Cat(Cat(ChunkLo(support_slices_ch), ChunkHi(support_slices_ch)),
                Cat(latent_means, latent_scales))

(***************************************************************************)
(* _checkerboard_codec_step.                                               *)
(***************************************************************************)
\* no index, channel or shape error is raised
CodecStepOK(m, slice_index, support, ctx_params) ==
    /\ slice_index < Len(m.pa)
    /\ SameHW(ctx_params, support)
    /\ ctx_params.C + support.C = m.pa[slice_index + 1].cin
    /\ PackOK(support)

\* mode_codec is "compress" (y_input a grid) or "decompress" (y_input a string)
CodecStep(m, y_input, slice_index, support, ctx_params, mode_codec, mode_step) ==
    LET params        == ParamAggregationF(m, slice_index, Cat(ctx_params, support))
        means         == ChunkLo(params)
        scales        == ChunkHi(params)
        means_encode  == PackT(means, mode_step)
        scales_encode == PackT(scales, mode_step)
        indexes       == BuildIndexes(scales_encode)
        strings       == IF mode_codec = "compress"
                         THEN GCCompress(PackT(y_input, mode_step), indexes, means_encode)
                         ELSE y_input
        quantized     == GCDecompress(strings, indexes, means_encode)
    IN [strings |-> strings,
        y_decode |-> UnpackT(quantized, mode_step, means.W),
        support |-> support, ctx_params |-> ctx_params,
        means_encode |-> means_encode, scales_encode |-> scales_encode,
        indexes |-> indexes]

(***************************************************************************)
(* Bitstream framing.                                                      *)
(***************************************************************************)
\* [x for xs in y_strings for x in xs]
RECURSIVE Flatten(_)
Flatten(xss) == IF xss = <<>> THEN <<>> ELSE Head(xss) \o Flatten(Tail(xss))

\* the side-information string put first
AssembleSideFirst(y_strings, z_strings) == <<z_strings>> \o Flatten(y_strings)

\* strings = [*y_strings_flat, z_strings]
Assemble(y_strings, z_strings) == Flatten(y_strings) \o <<z_strings>>

\* [*y_strings_flat, z_strings] = strings needs at least one element
DisassembleOK(strings) == Len(strings) >= 1

\* the pairs taken with range(0, len(y_strings_flat), 1)
DisassembleStride1(strings) ==
    LET y_strings_flat == SubSeq(strings, 1, Len(strings) - 1)
        n == Len(y_strings_flat)
    IN [y_strings |-> [j \in 1..n |->
                          SubSeq(y_strings_flat, j, IF j + 1 <= n THEN j + 1 ELSE n)],
        z_strings |-> strings[Len(strings)]]

\* the pairs taken from the whole list, the side-information string included
DisassembleKeepLast(strings) ==
    LET n == Len(strings)
    IN [y_strings |-> [j \in 1..((n + 1) \div 2) |->
                          SubSeq(strings, 2 * j - 1, IF 2 * j <= n THEN 2 * j ELSE n)],
        z_strings |-> strings[Len(strings)]]

\* y_strings_flat[i : i + 2] for i in range(0, len(y_strings_flat), 2)
Disassemble(strings) ==
    LET y_strings_flat == SubSeq(strings, 1, Len(strings) - 1)
        n == Len(y_strings_flat)
    IN [y_strings |-> [j \in 1..((n + 1) \div 2) |->
                          SubSeq(y_strings_flat, 2 * j - 1, IF 2 * j <= n THEN 2 * j ELSE n)],
        z_strings |-> strings[Len(strings)]]

(***************************************************************************)
(* Inputs.                                                                 *)
(***************************************************************************)
\* (M, N, num_slices, groups) handed to the constructor
Configs ==
    { [M |-> 5, N |-> 1, num_slices |-> 5, groups |-> <<0, 1, 1, 1, 1, 1>>],
      [M |-> 3, N |-> 1, num_slices |-> 2, groups |-> <<0, 1, 2>>],
      [M |-> 4, N |-> 1, num_slices |-> 3, groups |-> <<0, 1, 2, 1>>],
      [M |-> 2, N |-> 2, num_slices |-> 1, groups |-> <<0, 2>>],
      [M |-> 3, N |-> 1, num_slices |-> 2, groups |-> <<0, 1, 1>>],
      [M |-> 2, N |-> 1, num_slices |-> 1, groups |-> <<0, 1, 1>>],
      [M |-> 2, N |-> 1, num_slices |-> 3, groups |-> <<0, 1, 1>>] }

\* (H, W) of the latent grid y = g_a(x)
Shapes == { <<4, 4>>, <<4, 8>>, <<3, 3>>, <<2, 4>> }

\* the latent grid g_a produces: M channels
LatentGrid(M, shape, seed) ==
    MkT(M, shape[1], shape[2],
        LAMBDA c, r, w : Wrap(seed * (c + 2 * r + 3 * w + 1) + r * w))

NoStep ==
    [strings |-> <<>>, y_decode |-> NoT, support |-> NoT, ctx_params |-> NoT,
     means_encode |-> NoT, scales_encode |-> NoT, indexes |-> NoT]

CallIdle ==
    [pc |-> "idle", y |-> NoT, z_strings |-> <<>>, shape |-> <<0, 0>>,
     latent_means |-> NoT, latent_scales |-> NoT, y_slices |-> <<>>,
     ctx_params_anchor_split |-> <<>>, slice_index |-> 0, support |-> NoT,
     anchor |-> NoStep, ctx_params |-> NoT, non_anchor |-> NoStep,
     y_hat_slices |-> <<>>, y_strings |-> <<>>, steps |-> <<>>, trace |-> <<>>,
     strings |-> <<>>, y_hat |-> NoT]

(***************************************************************************)
(* TestModel.__init__.                                                     *)
(***************************************************************************)
Construct ==
    /\ model.status = "new"
    /\ model' = IF CtorOK(model) THEN Built(model) ELSE Unbuilt(model, "failed")
    /\ UNCHANGED <<inp, active, enc, dec, fwd, rets, calls>>

(***************************************************************************)
(* TestModel.compress.                                                     *)
(***************************************************************************)
EncFail(e) ==
    /\ enc' = [e EXCEPT !.pc = "failed"]
    /\ active' = "idle"
    /\ calls' = [calls EXCEPT !.compress = @ + 1]

\* y = g_a(x) .. y_strings = []; y_hat_slices = []
EncBegin ==
    /\ active = "idle" /\ model.status = "ready"
    /\ dec.pc = "idle"
    /\ calls.compress < MaxCompress
    /\ LET y      == inp.y
           z      == HA(y, model.N)
           zs     == EBCompress(z)
           z_hat  == EBDecompress(zs, <<z.H, z.W>>, model.N)
           latent == HS(z_hat, model.M)
           e0     == [CallIdle EXCEPT !.y = y, !.z_strings = zs, !.shape = <<z.H, z.W>>,
                         !.latent_means = ChunkLo(latent),
                         !.latent_scales = ChunkHi(latent),
                         !.trace = <<<<"z", 0>>>>]
       IN IF SplitOK(y, Widths(model.groups))
          THEN /\ enc' = [e0 EXCEPT
                     !.y_slices = SplitT(y, Widths(model.groups)),
                     !.ctx_params_anchor_split =
                         SplitT(Zeros(y.C * 2, y.H, y.W), Widths2(model.groups)),
                     !.pc = IF NumGroups(model.groups) > 0 THEN "support" ELSE "finish"]
               /\ active' = "compress"
               /\ UNCHANGED calls
          ELSE EncFail(e0)
    /\ UNCHANGED <<model, inp, dec, fwd, rets>>

\* support = self._calculate_support(..)
EncSupport ==
    /\ active = "compress" /\ enc.pc = "support"
    /\ IF CalculateSupportOK(model, enc.slice_index, enc.y_hat_slices,
                             enc.latent_means, enc.latent_scales)
       THEN /\ enc' = [enc EXCEPT
                  !.support = CalculateSupport(model, enc.slice_index, enc.y_hat_slices,
                                               enc.latent_means, enc.latent_scales),
                  !.trace = Append(@, <<"support", enc.slice_index>>),
                  !.pc = "anchor"]
            /\ UNCHANGED <<active, calls>>
       ELSE EncFail(enc)
    /\ UNCHANGED <<model, inp, dec, fwd, rets>>

\* the "compress,anchor" call of _checkerboard_codec_step
EncAnchor ==
    /\ active = "compress" /\ enc.pc = "anchor"
    /\ LET ctx == enc.ctx_params_anchor_split[enc.slice_index + 1]
       IN IF CodecStepOK(model, enc.slice_index, enc.support, ctx)
          THEN /\ enc' = [enc EXCEPT
                     !.anchor = CodecStep(model, enc.y_slices[enc.slice_index + 1],
                                          enc.slice_index, enc.support, ctx,
                                          "compress", "anchor"),
                     !.trace = Append(@, <<"anchor", enc.slice_index>>),
                     !.pc = "context"]
               /\ UNCHANGED <<active, calls>>
          ELSE EncFail(enc)
    /\ UNCHANGED <<model, inp, dec, fwd, rets>>

\* the context prediction run on the slice's own anchor values instead
EncNonAnchorCtxTrueValues(cp, y_anchor_decode) ==
    MaskedConvOut(cp.weight, cp.cin, cp.cout,
                  UnembedAnchor(enc.y_slices[enc.slice_index + 1]))

\* ctx_params of the non-anchor pass: self.context_prediction[slice_index](y_anchor_decode)
EncNonAnchorCtx(cp, y_anchor_decode) ==
    MaskedConvOut(cp.weight, cp.cin, cp.cout, y_anchor_decode)

\* self.context_prediction[slice_index](y_anchor_decode), evaluated as an argument
EncContext ==
    /\ active = "compress" /\ enc.pc = "context"
    /\ LET i  == enc.slice_index
           cp == model.cp[i + 1]
       IN IF enc.anchor.y_decode.C = cp.cin
          THEN /\ enc' = [enc EXCEPT
                     !.ctx_params = EncNonAnchorCtx(cp, enc.anchor.y_decode),
                     !.trace = Append(@, <<"context", i>>),
                     !.pc = "non_anchor"]
               /\ model' = [model EXCEPT !.cp[i + 1].weight = MaskedConvWeight(@)]
               /\ UNCHANGED <<active, calls>>
          ELSE EncFail(enc) /\ UNCHANGED model
    /\ UNCHANGED <<inp, dec, fwd, rets>>

\* the "compress,non_anchor" call of _checkerboard_codec_step
EncNonAnchor ==
    /\ active = "compress" /\ enc.pc = "non_anchor"
    /\ LET i == enc.slice_index
       IN IF CodecStepOK(model, i, enc.support, enc.ctx_params)
          THEN /\ enc' = [enc EXCEPT
                     !.non_anchor = CodecStep(model, enc.y_slices[i + 1], i, enc.support,
                                              enc.ctx_params, "compress", "non_anchor"),
                     !.trace = Append(@, <<"non_anchor", i>>),
                     !.pc = "append"]
               /\ UNCHANGED <<active, calls>>
          ELSE EncFail(enc)
    /\ UNCHANGED <<model, inp, dec, fwd, rets>>

\* the loop going on to the next slice's passes on the support it already has
EncAppendStaleSupport ==
    /\ active = "compress" /\ enc.pc = "append"
    /\ enc' = [enc EXCEPT
           !.y_hat_slices = Append(@, AddT(enc.anchor.y_decode, enc.non_anchor.y_decode)),
           !.y_strings = Append(@, <<enc.anchor.strings, enc.non_anchor.strings>>),
           !.steps = Append(@, [anchor |-> enc.anchor, non_anchor |-> enc.non_anchor]),
           !.trace = Append(@, <<"append", enc.slice_index>>),
           !.slice_index = @ + 1,
           !.pc = IF enc.slice_index + 1 < Len(enc.y_slices) THEN "anchor" ELSE "finish"]
    /\ UNCHANGED <<model, inp, active, dec, fwd, rets, calls>>

\* y_hat_slices.append(..); y_strings.append(..)
EncAppend ==
    /\ active = "compress" /\ enc.pc = "append"
    /\ enc' = [enc EXCEPT
           !.y_hat_slices = Append(@, AddT(enc.anchor.y_decode, enc.non_anchor.y_decode)),
           !.y_strings = Append(@, <<enc.anchor.strings, enc.non_anchor.strings>>),
           !.steps = Append(@, [anchor |-> enc.anchor, non_anchor |-> enc.non_anchor]),
           !.trace = Append(@, <<"append", enc.slice_index>>),
           !.slice_index = @ + 1,
           !.pc = IF enc.slice_index + 1 < Len(enc.y_slices) THEN "support" ELSE "finish"]
    /\ UNCHANGED <<model, inp, active, dec, fwd, rets, calls>>

\* return {"strings": strings, "shape": z.size()[-2:], ..}
EncFinish ==
    /\ active = "compress" /\ enc.pc = "finish"
    /\ enc' = [enc EXCEPT !.pc = "done",
                           !.strings = Assemble(enc.y_strings, enc.z_strings)]
    /\ rets' = Append(rets, [strings |-> Assemble(enc.y_strings, enc.z_strings),
                             shape |-> enc.shape])
    /\ active' = "idle"
    /\ calls' = [calls EXCEPT !.compress = @ + 1]
    /\ UNCHANGED <<model, inp, dec, fwd>>

(***************************************************************************)
(* TestModel.decompress.                                                   *)
(***************************************************************************)
\* the strings lists a caller may hand to decompress after compress returned ret:
\* the returned list, and lists with elements missing or added
DecInputs(ret) ==
    LET s == ret.strings
    IN { s,
         SubSeq(s, 1, Len(s) - 1),
         Tail(s),
         s \o <<s[Len(s)]>>,
         <<s[1], s[1]>> \o s,
         <<>> }

\* torch.cat(y_hat_slices, dim=1)
RECURSIVE CatList(_)
CatList(ts) ==
    IF Len(ts) = 1 THEN ts[1] ELSE Cat(CatList(SubSeq(ts, 1, Len(ts) - 1)), ts[Len(ts)])

DecFail(d) ==
    /\ dec' = [d EXCEPT !.pc = "failed"]
    /\ active' = "idle"
    /\ calls' = [calls EXCEPT !.decompress = @ + 1]

\* [*y_strings_flat, z_strings] = strings .. y_hat_slices = []
\* a latent grid taken to be twice the side-information grid
DecYShapeTimes2(z_hat) == <<z_hat.H * 2, z_hat.W * 2>>

\* y_shape = [z_hat.shape[2] * 4, z_hat.shape[3] * 4]
DecYShape(z_hat) == <<z_hat.H * 4, z_hat.W * 4>>

DecBegin ==
    /\ active = "idle" /\ model.status = "ready"
    /\ dec.pc = "idle"
    /\ rets # <<>>
    /\ \E strings \in DecInputs(rets[Len(rets)]) :
        LET shape == rets[Len(rets)].shape
            d0    == [CallIdle EXCEPT !.strings = strings, !.shape = shape]
        IN IF ~DisassembleOK(strings)
           THEN DecFail(d0)
           ELSE
             LET parsed == Disassemble(strings)
                 z_hat  == EBDecompress(parsed.z_strings, shape, model.N)
                 latent == HS(z_hat, model.M)
                 ctx_params_anchor == Zeros(model.M * 2, DecYShape(z_hat)[1], DecYShape(z_hat)[2])
                 d1     == [d0 EXCEPT !.y_strings = parsed.y_strings,
                               !.z_strings = parsed.z_strings,
                               !.latent_means = ChunkLo(latent),
                               !.latent_scales = ChunkHi(latent),
                               !.trace = <<<<"z", 0>>>>]
             IN IF SplitOK(ctx_params_anchor, Widths2(model.groups))
                THEN /\ dec' = [d1 EXCEPT
                           !.ctx_params_anchor_split =
                               SplitT(ctx_params_anchor, Widths2(model.groups)),
                           !.pc = IF NumGroups(model.groups) > 0
                                  THEN "support" ELSE "finish"]
                     /\ active' = "decompress"
                     /\ UNCHANGED calls
                ELSE DecFail(d1)
    /\ UNCHANGED <<model, inp, enc, fwd, rets>>

\* support = self._calculate_support(..)
DecSupport ==
    /\ active = "decompress" /\ dec.pc = "support"
    /\ IF CalculateSupportOK(model, dec.slice_index, dec.y_hat_slices,
                             dec.latent_means, dec.latent_scales)
       THEN /\ dec' = [dec EXCEPT
                  !.support = CalculateSupport(model, dec.slice_index, dec.y_hat_slices,
                                               dec.latent_means, dec.latent_scales),
                  !.trace = Append(@, <<"support", dec.slice_index>>),
                  !.pc = "anchor"]
            /\ UNCHANGED <<active, calls>>
       ELSE DecFail(dec)
    /\ UNCHANGED <<model, inp, enc, fwd, rets>>

\* the "decompress,anchor" call on y_strings[slice_index][0]
DecAnchor ==
    /\ active = "decompress" /\ dec.pc = "anchor"
    /\ LET i   == dec.slice_index
           ctx == dec.ctx_params_anchor_split[i + 1]
       IN IF i < Len(dec.y_strings)
             /\ CodecStepOK(model, i, dec.support, ctx)
          THEN /\ dec' = [dec EXCEPT
                     !.anchor = CodecStep(model, dec.y_strings[i + 1][1], i, dec.support,
                                          ctx, "decompress", "anchor"),
                     !.trace = Append(@, <<"anchor", i>>),
                     !.pc = "context"]
               /\ UNCHANGED <<active, calls>>
          ELSE DecFail(dec)
    /\ UNCHANGED <<model, inp, enc, fwd, rets>>

\* the decoder's non-anchor pass run on the zero context of the anchor pass
DecNonAnchorCtxZero(cp, y_anchor_decode) == Zeros(cp.cout, y_anchor_decode.H, y_anchor_decode.W)

\* ctx_params of the non-anchor pass: self.context_prediction[slice_index](y_anchor_decode)
DecNonAnchorCtx(cp, y_anchor_decode) ==
    MaskedConvOut(cp.weight, cp.cin, cp.cout, y_anchor_decode)

\* y_strings[slice_index][1] and then
\* self.context_prediction[slice_index](y_anchor_decode), evaluated as arguments
DecContext ==
    /\ active = "decompress" /\ dec.pc = "context"
    /\ LET i  == dec.slice_index
           cp == model.cp[i + 1]
       IN IF Len(dec.y_strings[i + 1]) < 2
          THEN DecFail(dec) /\ UNCHANGED model
          ELSE IF dec.anchor.y_decode.C = cp.cin
               THEN /\ dec' = [dec EXCEPT
                          !.ctx_params = DecNonAnchorCtx(cp, dec.anchor.y_decode),
                          !.trace = Append(@, <<"context", i>>),
                          !.pc = "non_anchor"]
                    /\ model' = [model EXCEPT !.cp[i + 1].weight = MaskedConvWeight(@)]
                    /\ UNCHANGED <<active, calls>>
               ELSE DecFail(dec) /\ UNCHANGED model
    /\ UNCHANGED <<inp, enc, fwd, rets>>

\* the "decompress,non_anchor" call of _checkerboard_codec_step
DecNonAnchor ==
    /\ active = "decompress" /\ dec.pc = "non_anchor"
    /\ LET i == dec.slice_index
       IN IF CodecStepOK(model, i, dec.support, dec.ctx_params)
          THEN /\ dec' = [dec EXCEPT
                     !.non_anchor = CodecStep(model, dec.y_strings[i + 1][2], i,
                                              dec.support, dec.ctx_params,
                                              "decompress", "non_anchor"),
                     !.trace = Append(@, <<"non_anchor", i>>),
                     !.pc = "append"]
               /\ UNCHANGED <<active, calls>>
          ELSE DecFail(dec)
    /\ UNCHANGED <<model, inp, enc, fwd, rets>>

\* y_hat_slices.append(y_anchor_decode + y_non_anchor_decode)
DecAppend ==
    /\ active = "decompress" /\ dec.pc = "append"
    /\ dec' = [dec EXCEPT
           !.y_hat_slices = Append(@, AddT(dec.anchor.y_decode, dec.non_anchor.y_decode)),
           !.steps = Append(@, [anchor |-> dec.anchor, non_anchor |-> dec.non_anchor]),
           !.trace = Append(@, <<"append", dec.slice_index>>),
           !.slice_index = @ + 1,
           !.pc = IF dec.slice_index + 1 < NumGroups(model.groups)
                  THEN "support" ELSE "finish"]
    /\ UNCHANGED <<model, inp, active, enc, fwd, rets, calls>>

\* y_hat = torch.cat(y_hat_slices, dim=1); x_hat = self.g_s(y_hat)
DecFinish ==
    /\ active = "decompress" /\ dec.pc = "finish"
    /\ dec' = [dec EXCEPT !.pc = "done", !.y_hat = CatList(dec.y_hat_slices)]
    /\ active' = "idle"
    /\ calls' = [calls EXCEPT !.decompress = @ + 1]
    /\ UNCHANGED <<model, inp, enc, fwd, rets>>

(***************************************************************************)
(* TestModel.forward (noisequant=False).                                   *)
(***************************************************************************)
FwdIdle ==
    [pc |-> "idle", y |-> NoT, latent_means |-> NoT, latent_scales |-> NoT,
     anchor |-> NoT, non_anchor |-> NoT,
     anchor_split |-> <<>>, non_anchor_split |-> <<>>, y_slices |-> <<>>,
     ctx_params_anchor_split |-> <<>>, slice_index |-> 0, support |-> NoT,
     means_hat_split |-> NoT, scales_hat_split |-> NoT,
     y_anchor_hat |-> NoT, ctx_params |-> NoT, y_non_anchor_hat |-> NoT,
     anchor_new |-> <<NoT, NoT>>, non_anchor_new |-> <<NoT, NoT>>,
     after_anchor |-> <<NoT, NoT>>,
     y_hat_slices |-> <<>>, params |-> <<>>, y_hat |-> NoT]

\* Quantizer.quantize(inputs, "ste"): numerically torch.round(inputs)
QuantizeSte(inputs) == [inputs EXCEPT !.v = [n \in 1..Len(inputs.v) |-> RoundHE(inputs.v[n])]]

\* a - b, element-wise
SubT(a, b) ==
    MkT(a.C, a.H, a.W, LAMBDA c, r, w : At(a, c, r, w) - At(b, c, r, w))

\* _apply_quantizer(y, means, noisequant=False)[0]
ApplyQuantizer(y, means) == AddT(QuantizeSte(SubT(y, means)), means)

\* the non-anchor pass writing the whole of new into the accumulator
WriteClassAll(buf, new, mode) ==
    MkT(buf.C, buf.H, buf.W,
        LAMBDA c, r, w :
            IF mode = "non_anchor" \/ IsAnchor(r, w) THEN At(new, c, r, w) ELSE At(buf, c, r, w))

\* buf[:, :, 0::2, a::2] = new[:, :, 0::2, a::2]; buf[:, :, 1::2, b::2] = new[:, :, 1::2, b::2]
WriteClass(buf, new, mode) ==
    MkT(buf.C, buf.H, buf.W,
        LAMBDA c, r, w :
            IF (mode = "anchor" /\ IsAnchor(r, w)) \/ (mode = "non_anchor" /\ IsNonAnchor(r, w))
            THEN At(new, c, r, w)
            ELSE At(buf, c, r, w))

\* y_hat[:, :, 0::2, a::2] = 0; y_hat[:, :, 1::2, b::2] = 0 on the other class
ZeroOther(y_hat, mode) ==
    MkT(y_hat.C, y_hat.H, y_hat.W,
        LAMBDA c, r, w :
            IF (mode = "anchor" /\ IsNonAnchor(r, w)) \/ (mode = "non_anchor" /\ IsAnchor(r, w))
            THEN 0
            ELSE At(y_hat, c, r, w))

\* no index, channel or shape error is raised in _checkerboard_forward_step
ForwardStepOK(m, y, slice_index, support, ctx_params) ==
    /\ slice_index < Len(m.pa)
    /\ SameHW(ctx_params, support)
    /\ ctx_params.C + support.C = m.pa[slice_index + 1].cin
    /\ SameHW(y, support)
    /\ y.C = m.pa[slice_index + 1].cout \div 2

\* _checkerboard_forward_step: the grids means and scales after the call, and y_hat
ForwardStep(m, y, slice_index, support, means, scales, ctx_params, mode) ==
    LET params     == ParamAggregationF(m, slice_index, Cat(ctx_params, support))
        means_new  == ChunkLo(params)
        scales_new == ChunkHi(params)
    IN [means |-> WriteClass(means, means_new, mode),
        scales |-> WriteClass(scales, scales_new, mode),
        means_new |-> means_new, scales_new |-> scales_new,
        y_hat |-> ZeroOther(ApplyQuantizer(y, means_new), mode)]

FwdFail(f) ==
    /\ fwd' = [f EXCEPT !.pc = "failed"]
    /\ active' = "idle"
    /\ calls' = [calls EXCEPT !.forward = @ + 1]

\* y = self.g_a(x) .. y_hat_slices_for_gs = []
FwdBegin ==
    /\ active = "idle" /\ model.status = "ready"
    /\ calls.forward = 0 /\ calls.compress = 0
    /\ LET y      == inp.y
           z      == HA(y, model.N)
           z_hat  == MkT(z.C, z.H, z.W,
                         LAMBDA c, r, w : RoundHE(At(z, c, r, w) - Median) + Median)
           latent == HS(z_hat, model.M)
           f0     == [FwdIdle EXCEPT !.y = y,
                         !.latent_means = ChunkLo(latent),
                         !.latent_scales = ChunkHi(latent),
                         !.anchor = UnembedAnchor(y),
                         !.non_anchor = UnembedNonAnchor(y)]
       IN IF SplitOK(y, Widths(model.groups))
          THEN /\ fwd' = [f0 EXCEPT
                     !.anchor_split = SplitT(UnembedAnchor(y), Widths(model.groups)),
                     !.non_anchor_split = SplitT(UnembedNonAnchor(y), Widths(model.groups)),
                     !.y_slices = SplitT(y, Widths(model.groups)),
                     !.ctx_params_anchor_split =
                         SplitT(Zeros(y.C * 2, y.H, y.W), Widths2(model.groups)),
                     !.pc = IF NumGroups(model.groups) > 0 THEN "support" ELSE "finish"]
               /\ active' = "forward"
               /\ UNCHANGED calls
          ELSE FwdFail(f0)
    /\ UNCHANGED <<model, inp, enc, dec, rets>>

\* support = self._calculate_support(..); the two zero accumulators
FwdSupport ==
    /\ active = "forward" /\ fwd.pc = "support"
    /\ IF CalculateSupportOK(model, fwd.slice_index, fwd.y_hat_slices,
                             fwd.latent_means, fwd.latent_scales)
       THEN /\ fwd' = [fwd EXCEPT
                  !.support = CalculateSupport(model, fwd.slice_index, fwd.y_hat_slices,
                                               fwd.latent_means, fwd.latent_scales),
                  !.means_hat_split =
                      LET a == fwd.anchor_split[fwd.slice_index + 1] IN Zeros(a.C, a.H, a.W),
                  !.scales_hat_split =
                      LET a == fwd.anchor_split[fwd.slice_index + 1] IN Zeros(a.C, a.H, a.W),
                  !.pc = "anchor"]
            /\ UNCHANGED <<active, calls>>
       ELSE FwdFail(fwd)
    /\ UNCHANGED <<model, inp, enc, dec, rets>>

\* the mode="anchor" call of _checkerboard_forward_step
FwdAnchor ==
    /\ active = "forward" /\ fwd.pc = "anchor"
    /\ LET i   == fwd.slice_index
           ctx == fwd.ctx_params_anchor_split[i + 1]
           y   == fwd.anchor_split[i + 1]
       IN IF ForwardStepOK(model, y, i, fwd.support, ctx)
          THEN LET st == ForwardStep(model, y, i, fwd.support, fwd.means_hat_split,
                                     fwd.scales_hat_split, ctx, "anchor")
               IN /\ fwd' = [fwd EXCEPT
                        !.means_hat_split = st.means,
                        !.scales_hat_split = st.scales,
                        !.after_anchor = <<st.means, st.scales>>,
                        !.anchor_new = <<st.means_new, st.scales_new>>,
                        !.y_anchor_hat = st.y_hat,
                        !.pc = "context"]
                  /\ UNCHANGED <<active, calls>>
          ELSE FwdFail(fwd)
    /\ UNCHANGED <<model, inp, enc, dec, rets>>

\* self.context_prediction[slice_index](y_anchor_hat), evaluated as an argument
FwdContext ==
    /\ active = "forward" /\ fwd.pc = "context"
    /\ LET i  == fwd.slice_index
           cp == model.cp[i + 1]
       IN IF fwd.y_anchor_hat.C = cp.cin
          THEN /\ fwd' = [fwd EXCEPT
                     !.ctx_params = MaskedConvOut(cp.weight, cp.cin, cp.cout,
                                                  fwd.y_anchor_hat),
                     !.pc = "non_anchor"]
               /\ model' = [model EXCEPT !.cp[i + 1].weight = MaskedConvWeight(@)]
               /\ UNCHANGED <<active, calls>>
          ELSE FwdFail(fwd) /\ UNCHANGED model
    /\ UNCHANGED <<inp, enc, dec, rets>>

\* the mode="non_anchor" call of _checkerboard_forward_step
FwdNonAnchor ==
    /\ active = "forward" /\ fwd.pc = "non_anchor"
    /\ LET i == fwd.slice_index
           y == fwd.non_anchor_split[i + 1]
       IN IF ForwardStepOK(model, y, i, fwd.support, fwd.ctx_params)
          THEN LET st == ForwardStep(model, y, i, fwd.support, fwd.means_hat_split,
                                     fwd.scales_hat_split, fwd.ctx_params, "non_anchor")
               IN /\ fwd' = [fwd EXCEPT
                        !.means_hat_split = st.means,
                        !.scales_hat_split = st.scales,
                        !.non_anchor_new = <<st.means_new, st.scales_new>>,
                        !.y_non_anchor_hat = st.y_hat,
                        !.pc = "append"]
                  /\ UNCHANGED <<active, calls>>
          ELSE FwdFail(fwd)
    /\ UNCHANGED <<model, inp, enc, dec, rets>>

\* y_hat = y_anchor_hat + y_non_anchor_hat; y_hat_slices.append(y_hat_i); the
\* likelihood query on (y_slice, scales_hat_split, means_hat_split)
FwdAppend ==
    /\ active = "forward" /\ fwd.pc = "append"
    /\ fwd' = [fwd EXCEPT
           !.y_hat_slices = Append(@, AddT(fwd.y_anchor_hat, fwd.y_non_anchor_hat)),
           !.params = Append(@, [means |-> fwd.means_hat_split,
                                 scales |-> fwd.scales_hat_split,
                                 after_anchor |-> fwd.after_anchor,
                                 anchor_new |-> fwd.anchor_new,
                                 non_anchor_new |-> fwd.non_anchor_new,
                                 y_anchor_hat |-> fwd.y_anchor_hat,
                                 y_non_anchor_hat |-> fwd.y_non_anchor_hat]),
           !.slice_index = @ + 1,
           !.pc = IF fwd.slice_index + 1 < Len(fwd.y_slices) THEN "support" ELSE "finish"]
    /\ UNCHANGED <<model, inp, active, enc, dec, rets, calls>>

\* y_hat = torch.cat(y_hat_slices_for_gs, dim=1); x_hat = self.g_s(y_hat)
FwdFinish ==
    /\ active = "forward" /\ fwd.pc = "finish"
    /\ fwd' = [fwd EXCEPT !.pc = "done", !.y_hat = CatList(fwd.y_hat_slices)]
    /\ active' = "idle"
    /\ calls' = [calls EXCEPT !.forward = @ + 1]
    /\ UNCHANGED <<model, inp, enc, dec, rets>>

Init ==
    /\ \E c \in Configs, shape \in Shapes, seed \in 1..NumSeeds :
          /\ model = Unbuilt(c, "new")
          /\ inp = [y |-> LatentGrid(c.M, shape, seed)]
    /\ active = "idle"
    /\ enc = CallIdle
    /\ dec = CallIdle
    /\ fwd = FwdIdle
    /\ rets = <<>>
    /\ calls = [compress |-> 0, decompress |-> 0, forward |-> 0]

Next ==
    \/ Construct
    \/ EncBegin
    \/ EncSupport
    \/ EncAnchor
    \/ EncContext
    \/ EncNonAnchor
    \/ EncAppend
    \/ EncFinish
    \/ DecBegin
    \/ DecSupport
    \/ DecAnchor
    \/ DecContext
    \/ DecNonAnchor
    \/ DecAppend
    \/ DecFinish
    \/ FwdBegin
    \/ FwdSupport
    \/ FwdAnchor
    \/ FwdContext
    \/ FwdNonAnchor
    \/ FwdAppend
    \/ FwdFinish

Spec == Init /\ [][Next]_vars

(***************************************************************************)
(* Properties.                                                             *)
(***************************************************************************)
\* decompress was called on the list and shape the last compress returned
DecOfEnc == dec.pc # "idle" /\ enc.pc = "done" /\ dec.strings = enc.strings

\* C1: round trip: decompress applied to the strings and shape returned by
\* compress rebuilds, slice by slice and at every position, the quantized grid
\* the encoder itself obtained (the sum of its anchor and non-anchor
\* reconstructions).
RoundTrip ==
    (DecOfEnc /\ dec.pc = "done")
        => /\ dec.y_hat_slices = enc.y_hat_slices
           /\ dec.y_hat = CatList(enc.y_hat_slices)

RoundTripWitness ==
    /\ DecOfEnc /\ dec.pc = "done"
    /\ Len(dec.y_hat_slices) = 5
    /\ dec.y_hat.C = 5 /\ dec.y_hat.H = 4 /\ dec.y_hat.W = 8
    /\ dec.y_hat # inp.y

\* C2: checkerboard partition: _unembed returns an anchor grid equal to g where
\* row and column have the same parity and zero elsewhere, a non-anchor grid
\* equal to g where the parities differ and zero elsewhere; every position is
\* in exactly one class, and the sum of the two grids is g.
CheckerboardPartition ==
    fwd.pc # "idle" =>
        LET g == fwd.y
            a == fwd.anchor
            n == fwd.non_anchor
        IN /\ a.C = g.C /\ a.H = g.H /\ a.W = g.W
           /\ n.C = g.C /\ n.H = g.H /\ n.W = g.W
           /\ \A c \in 0..(g.C - 1), r \in 0..(g.H - 1), w \in 0..(g.W - 1) :
                /\ At(a, c, r, w) = IF r % 2 = w % 2 THEN At(g, c, r, w) ELSE 0
                /\ At(n, c, r, w) = IF r % 2 # w % 2 THEN At(g, c, r, w) ELSE 0
                /\ IsAnchor(r, w) # IsNonAnchor(r, w)
           /\ AddT(a, n) = g

CheckerboardPartitionWitness ==
    /\ fwd.pc # "idle"
    /\ fwd.y.H = 3 /\ fwd.y.W = 3
    /\ \E n \in 1..Len(fwd.anchor.v) : fwd.anchor.v[n] # 0
    /\ \E n \in 1..Len(fwd.non_anchor.v) : fwd.non_anchor.v[n] # 0

\* the reconstruction of slice j replaced by another grid of the same shape
Perturb(y_hat_slices, j, d) ==
    [y_hat_slices EXCEPT ![j + 1] =
        MkT(@.C, @.H, @.W, LAMBDA c, r, w : IF d = 0 THEN 0 ELSE At(@, c, r, w) + d)]

\* the Support of the slice a call is at is independent of every earlier slice
\* other than slice 0 and the preceding one
SupportBounded(call) ==
    call.pc = "anchor" =>
        LET i == call.slice_index
        IN /\ i = 0 => call.support = Cat(call.latent_means, call.latent_scales)
           /\ call.support.C =
                 (IF i = 0 THEN 0 ELSE 2 * G(model.groups, i + 1)) + 2 * model.M
           /\ \A j \in 1..(i - 2), d \in {0, 2} :
                 CalculateSupport(model, i, Perturb(call.y_hat_slices, j, d),
                                  call.latent_means, call.latent_scales)
                 = call.support

\* C3: bounded context: the Support of slice 0 is the side-info priors only,
\* and the Support computed for slice i is the same whatever the
\* reconstruction of any earlier slice j other than 0 and i-1 (so the ParamPair
\* computed from it is the same too).
BoundedContext == SupportBounded(enc) /\ SupportBounded(dec) /\ SupportBounded(fwd)

BoundedContextWitness ==
    /\ enc.pc = "anchor" /\ enc.slice_index = 4
    /\ \E j \in {1, 2} :
          Perturb(enc.y_hat_slices, j, 0) # enc.y_hat_slices
    /\ CalculateSupport(model, 4, Perturb(enc.y_hat_slices, 3, 0),
                        enc.latent_means, enc.latent_scales) # enc.support

\* C4: bitstream layout: the list compress returns has 2k+1 elements; element
\* 2i is the string the anchor pass of slice i produced from the slice's anchor
\* values, element 2i+1 the string of its non-anchor pass, and the last element
\* is the side-information string.
BitstreamLayout ==
    enc.pc = "done" =>
        LET k == NumGroups(model.groups)
            s == rets[Len(rets)].strings
        IN /\ Len(s) = 2 * k + 1
           /\ Len(enc.steps) = k
           /\ \A i \in 0..(k - 1) :
                LET a == enc.steps[i + 1].anchor
                    n == enc.steps[i + 1].non_anchor
                IN /\ s[2 * i + 1] = a.strings
                   /\ s[2 * i + 2] = n.strings
                   /\ a.strings = GCCompress(PackT(enc.y_slices[i + 1], "anchor"),
                                             a.indexes, a.means_encode)
                   /\ n.strings = GCCompress(PackT(enc.y_slices[i + 1], "non_anchor"),
                                             n.indexes, n.means_encode)
           /\ s[2 * k + 1] = enc.z_strings

BitstreamLayoutWitness ==
    /\ enc.pc = "done"
    /\ Len(rets[Len(rets)].strings) = 11
    /\ \A i \in 1..10 : rets[Len(rets)].strings[i] # rets[Len(rets)].strings[11]
    /\ rets[Len(rets)].strings[1] # rets[Len(rets)].strings[2]

\* C5: framing round trip: parsing, as decompress does, the list compress
\* assembled recovers the k pairs in order, slice i's anchor string first in
\* pair i and its non-anchor string second, and the side-information string
\* (k = 1, 2 and 5 are reached).
FramingRoundTrip ==
    DecOfEnc =>
        /\ dec.y_strings = enc.y_strings
        /\ dec.z_strings = enc.z_strings
        /\ Len(dec.y_strings) = NumGroups(model.groups)
        /\ \A i \in 1..Len(dec.y_strings) :
              dec.y_strings[i] = <<enc.steps[i].anchor.strings,
                                   enc.steps[i].non_anchor.strings>>

FramingRoundTripWitness ==
    /\ DecOfEnc
    /\ Len(dec.y_strings) = 5
    /\ dec.y_strings[1][1] # dec.y_strings[1][2]
    /\ dec.y_strings[1] # dec.y_strings[2]

\* C6: framing error: decompress called with a list whose length is not 2k+1
\* fails before any slice is decoded and never returns a reconstruction.
FramingErrorRaised ==
    (dec.pc # "idle" /\ Len(dec.strings) # 2 * NumGroups(model.groups) + 1)
        => /\ dec.pc = "failed"
           /\ dec.anchor = NoStep
           /\ dec.y_hat_slices = <<>>

\* C7: construction-time configuration check: a model is built only from a
\* GroupTable of positive widths that sum to M and has num_slices slices.
ConfigurationChecked == model.status = "ready" => GroupsValid(model)

\* the events of a call over k slices, in the order they must happen
RECURSIVE ExpectedTrace(_)
ExpectedTrace(k) ==
    IF k = 0
    THEN <<<<"z", 0>>>>
    ELSE ExpectedTrace(k - 1)
         \o << <<"support", k - 1>>, <<"anchor", k - 1>>, <<"context", k - 1>>,
               <<"non_anchor", k - 1>>, <<"append", k - 1>> >>

\* the event a call at pc, in slice i, has just completed
LastEvent(pc, i) ==
    CASE pc = "support"    -> IF i = 0 THEN <<"z", 0>> ELSE <<"append", i - 1>>
      [] pc = "anchor"     -> <<"support", i>>
      [] pc = "context"    -> <<"anchor", i>>
      [] pc = "non_anchor" -> <<"context", i>>
      [] pc = "append"     -> <<"non_anchor", i>>

\* the events of a call so far are the first events of the expected order, and
\* each step found what the steps before it must have left
Ordered(call) ==
    LET k == NumGroups(model.groups)
    IN /\ Len(call.trace) <= Len(ExpectedTrace(k))
       /\ call.trace = SubSeq(ExpectedTrace(k), 1, Len(call.trace))
       /\ call.pc \in {"support", "anchor", "context", "non_anchor", "append"}
             => /\ Len(call.y_hat_slices) = call.slice_index
                /\ Len(call.steps) = call.slice_index
                /\ call.trace[1] = <<"z", 0>>
                /\ call.latent_means # NoT
                /\ call.trace[Len(call.trace)] = LastEvent(call.pc, call.slice_index)
       /\ call.pc \in {"context", "non_anchor", "append"}
             => call.anchor.support = call.support
       /\ call.pc = "non_anchor"
             => call.ctx_params
                = Conv5(model.cp[call.slice_index + 1].weight,
                        model.cp[call.slice_index + 1].cin,
                        model.cp[call.slice_index + 1].cout, call.anchor.y_decode)
       /\ call.pc = "append"
             => /\ call.non_anchor.ctx_params = call.ctx_params
                /\ call.non_anchor.support = call.support
       /\ call.pc = "done" => Len(call.trace) = Len(ExpectedTrace(k))

\* C8: strict ordering: in compress and in decompress the side information is
\* decoded first, then for slice 0, 1, .. in turn the Support, the anchor pass,
\* the context prediction on the anchor reconstruction, the non-anchor pass and
\* the append of the merged reconstruction, none skipped or repeated; the
\* Support of slice i+1 is computed with exactly i+1 reconstructions appended.
StrictOrdering == Ordered(enc) /\ Ordered(dec)

StrictOrderingWitness ==
    /\ enc.pc = "done" /\ dec.pc = "done"
    /\ Len(enc.trace) = 26 /\ Len(dec.trace) = 26
    /\ DecOfEnc

\* C9: determinism: every compress call of a session on the same input returns
\* the same strings and the same shape, and the weights a context prediction
\* holds after a call are a fixed point of its in-place masking.
Determinism ==
    /\ \A i, j \in 1..Len(rets) : rets[i] = rets[j]
    /\ model.status = "ready" =>
          \A n \in 1..Len(model.cp) :
             \/ model.cp[n].weight = InitWeight(model.cp[n].cin, model.cp[n].cout)
             \/ model.cp[n].weight = MaskedConvWeight(model.cp[n].weight)

DeterminismWitness ==
    /\ Len(rets) = 2
    /\ Len(rets[2].strings) = 11
    /\ calls.forward = 0
    /\ \A n \in 1..Len(model.cp) :
          model.cp[n].weight # InitWeight(model.cp[n].cin, model.cp[n].cout)
    /\ \E i \in 1..Len(enc.steps) :
          \E n \in 1..Len(enc.steps[i].non_anchor.ctx_params.v) :
             enc.steps[i].non_anchor.ctx_params.v[n] # 0

\* what a pass computed before it touched the entropy coder
PassParams(st) ==
    <<st.support, st.ctx_params, st.means_encode, st.scales_encode, st.indexes>>

\* C10: encoder/decoder mirror: decoding what compress returned, every pass of
\* every slice builds the Support, spatial context, packed means, packed scales
\* and indexes the encoder built for that pass, and the anchor pass runs on an
\* all-zero spatial context on both sides.
Mirror ==
    DecOfEnc =>
        /\ \A i \in 1..Len(dec.steps) :
              /\ PassParams(dec.steps[i].anchor) = PassParams(enc.steps[i].anchor)
              /\ PassParams(dec.steps[i].non_anchor) = PassParams(enc.steps[i].non_anchor)
              /\ \A n \in 1..Len(dec.steps[i].anchor.ctx_params.v) :
                    /\ dec.steps[i].anchor.ctx_params.v[n] = 0
                    /\ enc.steps[i].anchor.ctx_params.v[n] = 0
        /\ dec.pc \in {"context", "non_anchor", "append"}
              => PassParams(dec.anchor) = PassParams(enc.steps[dec.slice_index + 1].anchor)
        /\ dec.pc = "append"
              => PassParams(dec.non_anchor)
                 = PassParams(enc.steps[dec.slice_index + 1].non_anchor)

MirrorWitness ==
    /\ DecOfEnc /\ dec.pc = "done"
    /\ Len(dec.steps) = 5
    /\ \A i \in 1..5 :
          /\ \E n \in 1..Len(dec.steps[i].non_anchor.ctx_params.v) :
                dec.steps[i].non_anchor.ctx_params.v[n] # 0
          /\ dec.steps[i].non_anchor.indexes # dec.steps[i].anchor.indexes

\* what the entropy coder's decompress gives back for the string of a pass,
\* unpacked to the full width
DecodedOf(st, mode_step) ==
    UnpackT(GCDecompress(st.strings, st.indexes, st.means_encode), mode_step, st.support.W)

\* C11: the encoder feeds back decoded values only: in compress the grid given
\* to the context prediction of a slice is the unpacked result of the entropy
\* coder's decompress of the anchor string, zero at every non-anchor position;
\* the reconstruction appended for later slices is the sum of the decompressed
\* anchor and non-anchor grids; the Support of a later slice is computed from
\* those reconstructions, and the slice's own values are read only to build
\* what is handed to the entropy coder's compress.
FeedbackDecodedOnly ==
    /\ enc.pc \in {"context", "non_anchor", "append"} =>
          /\ enc.anchor.y_decode = DecodedOf(enc.anchor, "anchor")
          /\ enc.anchor.strings
             = GCCompress(PackT(enc.y_slices[enc.slice_index + 1], "anchor"),
                          enc.anchor.indexes, enc.anchor.means_encode)
          /\ \A c \in 0..(enc.anchor.y_decode.C - 1), r \in 0..(enc.anchor.y_decode.H - 1),
                w \in 0..(enc.anchor.y_decode.W - 1) :
                IsNonAnchor(r, w) => At(enc.anchor.y_decode, c, r, w) = 0
    /\ enc.pc = "non_anchor" =>
          enc.ctx_params
          = Conv5(MaskWeight(model.cp[enc.slice_index + 1].weight),
                  model.cp[enc.slice_index + 1].cin, model.cp[enc.slice_index + 1].cout,
                  DecodedOf(enc.anchor, "anchor"))
    /\ enc.pc = "append" =>
          /\ enc.non_anchor.ctx_params = enc.ctx_params
          /\ enc.non_anchor.y_decode = DecodedOf(enc.non_anchor, "non_anchor")
    /\ enc.pc \in {"support", "anchor", "context", "non_anchor", "append", "finish", "done"} =>
          \A i \in 1..Len(enc.y_hat_slices) :
             enc.y_hat_slices[i] = AddT(DecodedOf(enc.steps[i].anchor, "anchor"),
                                        DecodedOf(enc.steps[i].non_anchor, "non_anchor"))
    /\ (enc.pc \in {"anchor", "context", "non_anchor", "append"} /\ enc.slice_index > 0) =>
          enc.support
          = CalculateSupport(model, enc.slice_index,
                             [i \in 1..enc.slice_index |->
                                 AddT(DecodedOf(enc.steps[i].anchor, "anchor"),
                                      DecodedOf(enc.steps[i].non_anchor, "non_anchor"))],
                             enc.latent_means, enc.latent_scales)

\* a non-anchor pass is reached whose anchor reconstruction is not the slice's
\* own anchor values, and a later slice's Support has been computed
FeedbackDecodedOnlyWitness ==
    /\ enc.pc = "non_anchor" /\ enc.slice_index = 1
    /\ enc.anchor.y_decode # UnembedAnchor(enc.y_slices[2])
    /\ enc.y_hat_slices[1] # enc.y_slices[1]
    /\ \E n \in 1..Len(enc.ctx_params.v) : enc.ctx_params.v[n] # 0

\* (H, W) of further grids of even width the packing is applied to
PackShapes == { <<3, 2>>, <<1, 6>>, <<5, 4>>, <<2, 2>> }

\* pack then unpack of one parity class of the grid g
PackUnpackOf(g, step) ==
    LET p   == PackT(g, step)
        off == IF step = "anchor" THEN 0 ELSE 1
    IN /\ p.C = g.C /\ p.H = g.H /\ 2 * p.W = g.W
       /\ Len(p.v) = g.C * g.H * (g.W \div 2)
       /\ \A c \in 0..(g.C - 1), r \in 0..(g.H - 1) :
             /\ \A j \in 0..(p.W - 1) :
                   At(p, c, r, j)
                   = At(g, c, r, IF r % 2 = 0 THEN 2 * j + off ELSE 2 * j + 1 - off)
             /\ \A w \in 0..(g.W - 1) :
                   LET owned == IF step = "anchor" THEN r % 2 = w % 2 ELSE r % 2 # w % 2
                   IN Cardinality({j \in 0..(p.W - 1) : PackCol(step, r, j) = w})
                      = IF owned THEN 1 ELSE 0
       /\ UnpackT(p, step, g.W)
          = IF step = "anchor" THEN UnembedAnchor(g) ELSE UnembedNonAnchor(g)

\* C12: pack/unpack: packing one parity class of a grid gives a dense grid of
\* the same channels and rows and half the columns, holding the values of that
\* class only (anchor: columns 0,2,.. of even rows and 1,3,.. of odd rows;
\* non-anchor: the other columns), each owned position once; unpacking it
\* into a zero grid of the full shape gives that class's component of the
\* checkerboard split. Checked on every slice compress packs, on the packed
\* means and reconstructions of its passes, and on further even-width grids.
PackUnpack ==
    /\ enc.pc \in {"context", "non_anchor", "append"} =>
          LET g == enc.y_slices[enc.slice_index + 1]
          IN /\ PackUnpackOf(g, "anchor")
             /\ PackUnpackOf(g, "non_anchor")
             /\ enc.anchor.means_encode.C = g.C /\ enc.anchor.means_encode.H = g.H
             /\ 2 * enc.anchor.means_encode.W = g.W
             /\ enc.anchor.y_decode.W = g.W
             /\ PackT(enc.anchor.y_decode, "non_anchor") = Zeros(g.C, g.H, g.W \div 2)
             /\ UnpackT(PackT(enc.anchor.y_decode, "anchor"), "anchor", g.W)
                = enc.anchor.y_decode
    /\ enc.pc = "append" =>
          LET g == enc.y_slices[enc.slice_index + 1]
          IN /\ 2 * enc.non_anchor.means_encode.W = g.W
             /\ PackT(enc.non_anchor.y_decode, "anchor") = Zeros(g.C, g.H, g.W \div 2)
             /\ UnpackT(PackT(enc.non_anchor.y_decode, "non_anchor"), "non_anchor", g.W)
                = enc.non_anchor.y_decode
    /\ enc.pc = "finish" =>
          \A shape \in PackShapes :
             /\ PackUnpackOf(LatentGrid(model.M, shape, 1), "anchor")
             /\ PackUnpackOf(LatentGrid(model.M, shape, 1), "non_anchor")

\* both passes of a two-channel slice of a 4 x 8 grid are done, and the two
\* packed classes of the slice differ and are not zero
PackUnpackWitness ==
    /\ enc.pc = "append"
    /\ LET g == enc.y_slices[enc.slice_index + 1]
       IN /\ g.C = 2 /\ g.H = 4 /\ g.W = 8
          /\ PackT(g, "anchor") # PackT(g, "non_anchor")
          /\ PackT(g, "anchor") # Zeros(2, 4, 4)
          /\ PackT(g, "non_anchor") # Zeros(2, 4, 4)
          /\ UnpackT(PackT(g, "anchor"), "anchor", 8) # g
          /\ enc.anchor.y_decode # Zeros(2, 4, 8)

\* the accumulator acc after the anchor pass: the anchor-pass value new at the
\* anchor positions, still zero elsewhere
AfterAnchorPass(acc, new) ==
    /\ acc.C = new.C /\ acc.H = new.H /\ acc.W = new.W
    /\ \A c \in 0..(acc.C - 1), r \in 0..(acc.H - 1), w \in 0..(acc.W - 1) :
          At(acc, c, r, w) = IF r % 2 = w % 2 THEN At(new, c, r, w) ELSE 0

\* the accumulator acc after both passes, before being the grid before the
\* non-anchor pass
AfterBothPasses(acc, before, anchor_new, non_anchor_new) ==
    /\ acc.C = before.C /\ acc.H = before.H /\ acc.W = before.W
    /\ \A c \in 0..(acc.C - 1), r \in 0..(acc.H - 1), w \in 0..(acc.W - 1) :
          /\ r % 2 = w % 2 => /\ At(acc, c, r, w) = At(before, c, r, w)
                              /\ At(acc, c, r, w) = At(anchor_new, c, r, w)
          /\ r % 2 # w % 2 => At(acc, c, r, w) = At(non_anchor_new, c, r, w)

\* the grid t is zero at every position of one class
ZeroOnClass(t, anchor_class) ==
    \A c \in 0..(t.C - 1), r \in 0..(t.H - 1), w \in 0..(t.W - 1) :
       ((r % 2 = w % 2) = anchor_class) => At(t, c, r, w) = 0

\* C13: parity-restricted accumulation in forward: the anchor pass of
\* _checkerboard_forward_step writes the slice's accumulated mean and scale
\* grids at anchor positions only, the non-anchor pass at non-anchor positions
\* only, leaving what the anchor pass wrote; after both passes every position
\* holds the anchor-pass ParamPair at anchor positions and the non-anchor-pass
\* ParamPair at non-anchor positions; each pass's reconstruction is zero at
\* the positions of the other class.
ParityAccumulation ==
    /\ fwd.pc \in {"context", "non_anchor"} =>
          /\ AfterAnchorPass(fwd.means_hat_split, fwd.anchor_new[1])
          /\ AfterAnchorPass(fwd.scales_hat_split, fwd.anchor_new[2])
          /\ fwd.after_anchor = <<fwd.means_hat_split, fwd.scales_hat_split>>
          /\ ZeroOnClass(fwd.y_anchor_hat, FALSE)
    /\ fwd.pc = "append" =>
          /\ AfterAnchorPass(fwd.after_anchor[1], fwd.anchor_new[1])
          /\ AfterAnchorPass(fwd.after_anchor[2], fwd.anchor_new[2])
          /\ AfterBothPasses(fwd.means_hat_split, fwd.after_anchor[1],
                             fwd.anchor_new[1], fwd.non_anchor_new[1])
          /\ AfterBothPasses(fwd.scales_hat_split, fwd.after_anchor[2],
                             fwd.anchor_new[2], fwd.non_anchor_new[2])
          /\ ZeroOnClass(fwd.y_anchor_hat, FALSE)
          /\ ZeroOnClass(fwd.y_non_anchor_hat, TRUE)
    /\ \A i \in 1..Len(fwd.params) :
          LET q == fwd.params[i]
          IN /\ AfterBothPasses(q.means, q.after_anchor[1],
                                q.anchor_new[1], q.non_anchor_new[1])
             /\ AfterBothPasses(q.scales, q.after_anchor[2],
                                q.anchor_new[2], q.non_anchor_new[2])
             /\ q.means.C = fwd.y_slices[i].C /\ SameHW(q.means, fwd.y_slices[i])

\* both passes of a slice are done; the two ParamPairs differ at an anchor and
\* at a non-anchor position, the anchor-pass ParamPair is not zero off the
\* anchor class, and both reconstructions are not zero
ParityAccumulationWitness ==
    /\ fwd.pc = "append" /\ fwd.slice_index = 1
    /\ \E c \in 0..(fwd.means_hat_split.C - 1), r \in 0..3, w \in 0..3 :
          /\ r % 2 = w % 2
          /\ At(fwd.anchor_new[1], c, r, w) # At(fwd.non_anchor_new[1], c, r, w)
    /\ \E c \in 0..(fwd.means_hat_split.C - 1), r \in 0..3, w \in 0..3 :
          /\ r % 2 # w % 2
          /\ At(fwd.anchor_new[1], c, r, w) # At(fwd.non_anchor_new[1], c, r, w)
          /\ At(fwd.anchor_new[1], c, r, w) # 0
    /\ ~ZeroOnClass(fwd.y_anchor_hat, TRUE)
    /\ ~ZeroOnClass(fwd.y_non_anchor_hat, FALSE)

\* the channel counts of what a compress or decompress call at slice i handed to
\* cc_transforms[i - 1] and to ParamAggregation[i]
ArityAt(call) ==
    LET i == call.slice_index
        g == model.groups
        pa_in == IF i = 0 THEN 2 * G(g, 1) + 2 * model.M
                 ELSE 2 * G(g, i + 1) + 2 * G(g, i + 1) + 2 * model.M
    IN /\ (call.pc \in {"anchor", "context", "non_anchor", "append"} /\ i > 0) =>
             LET x   == SupportInput(i, call.y_hat_slices)
                 out == CcTransformF(model, i - 1, x)
             IN /\ x.C = IF i = 1 THEN G(g, 1) ELSE G(g, 1) + G(g, i)
                /\ x.C = model.cc[i].cin
                /\ ChunkLo(out).C = G(g, i + 1)
                /\ ChunkHi(out).C = G(g, i + 1)
                /\ call.support.C = 2 * G(g, i + 1) + 2 * model.M
       /\ call.pc \in {"context", "non_anchor", "append"} =>
             /\ call.anchor.ctx_params.C = 2 * G(g, i + 1)
             /\ call.anchor.ctx_params.C + call.anchor.support.C = pa_in
             /\ model.pa[i + 1].cin = pa_in
             /\ call.anchor.means_encode.C = G(g, i + 1)
             /\ call.anchor.scales_encode.C = G(g, i + 1)
       /\ call.pc \in {"non_anchor", "append"} =>
             call.ctx_params.C = 2 * G(g, i + 1)
       /\ call.pc = "append" =>
             /\ call.non_anchor.ctx_params.C + call.non_anchor.support.C = pa_in
             /\ call.non_anchor.means_encode.C = G(g, i + 1)

\* the same channel counts in a forward call
ArityFwd ==
    LET i == fwd.slice_index
        g == model.groups
        pa_in == IF i = 0 THEN 2 * G(g, 1) + 2 * model.M
                 ELSE 2 * G(g, i + 1) + 2 * G(g, i + 1) + 2 * model.M
    IN /\ (fwd.pc \in {"anchor", "context", "non_anchor", "append"} /\ i > 0) =>
             /\ SupportInput(i, fwd.y_hat_slices).C = model.cc[i].cin
             /\ fwd.support.C = 2 * G(g, i + 1) + 2 * model.M
       /\ fwd.pc = "anchor" =>
             fwd.ctx_params_anchor_split[i + 1].C + fwd.support.C = model.pa[i + 1].cin
       /\ fwd.pc \in {"non_anchor", "append"} =>
             /\ fwd.ctx_params.C + fwd.support.C = pa_in
             /\ model.pa[i + 1].cin = pa_in
       /\ fwd.pc = "append" =>
             /\ fwd.non_anchor_new[1].C = G(g, i + 1)
             /\ fwd.non_anchor_new[2].C = G(g, i + 1)

\* C14: channel-arity consistency: for a GroupTable [0, g1, .., gk] of positive
\* widths summing to M with num_slices = k, in every slice i and both passes
\* the tensor handed to cc_transforms[i-1] has the channel count that
\* function was declared with (g1 for i = 1, g1 + g_i for i > 1), its output
\* splits into a mean and a scale of g_{i+1} channels, and the concatenation
\* handed to ParamAggregation[i] has the declared count (2*g_{i+1} + 2M for
\* i = 0, 4*g_{i+1} + 2M after); no call on a grid whose sides are multiples
\* of 4 fails.
ChannelArity ==
    (model.status = "ready" /\ GroupsValid(model)) =>
        /\ ArityAt(enc)
        /\ ArityAt(dec)
        /\ ArityFwd
        /\ (inp.y.H % 4 = 0 /\ inp.y.W % 4 = 0) =>
              /\ enc.pc # "failed"
              /\ fwd.pc # "failed"
              /\ DecOfEnc => dec.pc # "failed"

\* the last slice of the table [0, 1, 2, 1] has had both passes, in compress
\* and in the decompress of its result
ChannelArityWitness ==
    /\ model.groups = <<0, 1, 2, 1>> /\ GroupsValid(model)
    /\ enc.pc = "done" /\ DecOfEnc
    /\ dec.pc = "append" /\ dec.slice_index = 2
    /\ SupportInput(2, dec.y_hat_slices).C = 3
    /\ dec.support.C = 10
    /\ dec.non_anchor.ctx_params.C + dec.non_anchor.support.C = 12

\* C15: decoder grid size: the latent height and width decompress assumes, 4
\* times those of the side-information grid decoded with the shape compress
\* returned, are those of the latent grid compress coded, for every grid size
\* compress accepts (those with both sides a multiple of 4); the decoder's
\* zero anchor context, priors, ParamPairs and reconstructed slices have the
\* spatial shape of the encoder's, and the decoder does not fail.
DecoderGridSize ==
    /\ enc.pc = "done" =>
          /\ enc.y.H % 4 = 0 /\ enc.y.W % 4 = 0
          /\ rets[Len(rets)].shape = <<enc.y.H \div 4, enc.y.W \div 4>>
    /\ (enc.pc = "failed" /\ GroupsValid(model)) =>
          (enc.y.H % 4 # 0 \/ enc.y.W % 4 # 0)
    /\ DecOfEnc =>
          /\ dec.pc # "failed"
          /\ 4 * dec.shape[1] = enc.y.H /\ 4 * dec.shape[2] = enc.y.W
          /\ SameHW(dec.latent_means, enc.y) /\ SameHW(dec.latent_scales, enc.y)
          /\ Len(dec.ctx_params_anchor_split) = Len(enc.ctx_params_anchor_split)
          /\ \A i \in 1..Len(dec.ctx_params_anchor_split) :
                /\ SameHW(dec.ctx_params_anchor_split[i], enc.y)
                /\ dec.ctx_params_anchor_split[i] = enc.ctx_params_anchor_split[i]
          /\ \A i \in 1..Len(dec.y_hat_slices) :
                /\ SameHW(dec.y_hat_slices[i], enc.y_slices[i])
                /\ dec.y_hat_slices[i].C = enc.y_slices[i].C
                /\ dec.steps[i].anchor.means_encode.H = enc.y.H
                /\ 2 * dec.steps[i].anchor.means_encode.W = enc.y.W
                /\ dec.steps[i].non_anchor.means_encode.H = enc.y.H
                /\ 2 * dec.steps[i].non_anchor.means_encode.W = enc.y.W
          /\ dec.pc = "done" =>
                /\ SameHW(dec.y_hat, enc.y)
                /\ dec.y_hat.C = enc.y.C

\* the result of compressing a 4 x 8 latent grid, returned with the shape
\* (1, 2), has been decoded to the end
DecoderGridSizeWitness ==
    /\ DecOfEnc /\ dec.pc = "done"
    /\ enc.y.H = 4 /\ enc.y.W = 8
    /\ dec.shape = <<1, 2>>
    /\ dec.y_hat.H = 4 /\ dec.y_hat.W = 8
    /\ Len(dec.y_hat_slices) = 3

====
